---- MODULE Spec2Model ----
(***************************************************************************)
(* Model of the openlifter-parser repository: the deduplication, grouping  *)
(* and ranking pipeline of main2.py, and the upload handler of renderer.py *)
(* that runs it.                                                           *)
(*                                                                         *)
(* Text is modelled as a sequence of one-character strings, so that        *)
(* str.strip, str.lower, float(), str(float) and string comparison are     *)
(* computed and not assumed.  A CSV row is a function from the header's    *)
(* column names to texts; a field that csv.DictReader fills with None (a   *)
(* row shorter than the header) is the value None below.                   *)
(***************************************************************************)
EXTENDS Integers, Sequences, FiniteSets, TLC

VARIABLES pc, rows, athletes_by_name, groups, sorted_group_keys, gi, tables,
          rpc, upload, files, output

vars == <<pc, rows, athletes_by_name, groups, sorted_group_keys, gi, tables,
          rpc, upload, files, output>>

pipeVars == <<pc, rows, athletes_by_name, groups, sorted_group_keys, gi, tables>>

webVars == <<rpc, upload, files, output>>

----------------------------------------------------------------------------
(* Bounds of the model. *)

MaxRows == 3

MaxCohort == 4

MaxKeys == 3

NumRequests == 2

----------------------------------------------------------------------------
(* Text. *)

\* The printable ASCII characters in code-point order: 32 (space) to 95, and
\* 97 to 126 (the grave accent, 96, occurs in no text of the model).
AsciiLow ==
  <<" ", "!", "\"", "#", "$", "%", "&", "'", "(", ")", "*", "+", ",", "-", ".", "/",
    "0", "1", "2", "3", "4", "5", "6", "7", "8", "9", ":", ";", "<", "=", ">", "?",
    "@", "A", "B", "C", "D", "E", "F", "G", "H", "I", "J", "K", "L", "M", "N", "O",
    "P", "Q", "R", "S", "T", "U", "V", "W", "X", "Y", "Z", "[", "\\", "]", "^", "_">>

AsciiHigh ==
  <<"a", "b", "c", "d", "e", "f", "g", "h", "i", "j", "k", "l", "m", "n", "o",
    "p", "q", "r", "s", "t", "u", "v", "w", "x", "y", "z", "{", "|", "}", "~">>

\* The code point of each of these characters.
CodePoint ==
  [c \in {AsciiLow[i] : i \in 1..Len(AsciiLow)} \cup {AsciiHigh[i] : i \in 1..Len(AsciiHigh)} |->
     IF \E i \in 1..Len(AsciiLow) : AsciiLow[i] = c
     THEN 31 + CHOOSE i \in 1..Len(AsciiLow) : AsciiLow[i] = c
     ELSE 96 + CHOOSE i \in 1..Len(AsciiHigh) : AsciiHigh[i] = c]

\* ord(c) of Python.
Ord(c) == CodePoint[c]

\* chr(n) of Python.
Chr(n) == IF n <= 95 THEN AsciiLow[n - 31] ELSE AsciiHigh[n - 96]

\* The value csv.DictReader gives a field the row is too short to hold.
None == <<"None">>

Digits == {"0", "1", "2", "3", "4", "5", "6", "7", "8", "9"}

DigitVal(c) == Ord(c) - 48

DigitChar(d) == Chr(48 + d)

\* The least and the greatest member of a non-empty set of integers.
Min(S) == CHOOSE i \in S : \A j \in S : i <= j

Max(S) == CHOOSE i \in S : \A j \in S : j <= i

\* str.strip(): leading and trailing whitespace removed.
strip(s) ==
  LET inked == {i \in 1..Len(s) : s[i] # " "}
  IN IF inked = {} THEN <<>> ELSE SubSeq(s, Min(inked), Max(inked))

\* str.lower() on ASCII text.
lower(s) ==
  [i \in 1..Len(s) |->
     IF Ord(s[i]) >= 65 /\ Ord(s[i]) <= 90 THEN Chr(Ord(s[i]) + 32) ELSE s[i]]

\* s < t for two str values: by code point at the first difference, a
\* proper prefix first.
StrLess(s, t) ==
  LET n == IF Len(s) < Len(t) THEN Len(s) ELSE Len(t)
      diff == {i \in 1..n : s[i] # t[i]}
  IN IF diff = {} THEN Len(s) < Len(t)
     ELSE Ord(s[Min(diff)]) < Ord(t[Min(diff)])

\* The value of a run of decimal digits.
DigitsVal(s) ==
  LET val[i \in 0..Len(s)] == IF i = 0 THEN 0 ELSE 10 * val[i - 1] + DigitVal(s[i])
  IN val[Len(s)]

\* A natural number below a million, in decimal.
NatStr(n) ==
  LET k == Min({d \in 1..6 : n < 10 ^ d})
  IN [i \in 1..k |-> DigitChar((n \div (10 ^ (k - i))) % 10)]

AllDigits(s) == \A i \in 1..Len(s) : s[i] \in Digits

\* The place of the first "." of s, 0 when it has none.
DotAt(s) ==
  LET dots == {i \in 1..Len(s) : s[i] = "."}
  IN IF dots = {} THEN 0 ELSE Min(dots)

\* float(s), after the sign and the blanks are gone: u is digits with at
\* most one "." and at most one digit after it, or float raises ValueError.
FloatOfUnsigned(u) ==
  LET d == DotAt(u)
      ip == IF d = 0 THEN u ELSE SubSeq(u, 1, d - 1)
      fp == IF d = 0 THEN <<>> ELSE SubSeq(u, d + 1, Len(u))
  IN IF AllDigits(ip) /\ AllDigits(fp) /\ Len(ip) + Len(fp) > 0 /\ Len(fp) <= 1
     THEN [ok |-> TRUE, val |-> 10 * DigitsVal(ip) + DigitsVal(fp)]
     ELSE [ok |-> FALSE, val |-> 0]

\* float(s) for a str s over digits, ".", a leading "+" and surrounding
\* blanks, with at most one digit after the point: [ok |-> whether float
\* accepts s (it raises ValueError otherwise), val |-> the number in tenths].
\* A float is held as its number of tenths.
float(s) ==
  CHOOSE r \in {FloatOfUnsigned(IF t # <<>> /\ Head(t) = "+" THEN Tail(t) ELSE t) :
                 t \in {strip(s)}} : TRUE

\* str(x) of a non-negative float x held in tenths: "60.0", "67.5".
FloatStr(v) == NatStr(v \div 10) \o <<".">> \o <<DigitChar(v % 10)>>

----------------------------------------------------------------------------
(* main2.py *)

EXPECTED_DIVISIONS ==
  << <<"S","u","b","-","J","u","n","i","o","r">>,
     <<"J","u","n","i","o","r">>,
     <<"M","1">>,
     <<"M","2">>,
     <<"M","3">>,
     <<"O","p","e","n">> >>

\* list.index is zero-based.
get_division_rank(division) ==
  IF \E i \in 1..Len(EXPECTED_DIVISIONS) : EXPECTED_DIVISIONS[i] = division
  THEN (CHOOSE i \in 1..Len(EXPECTED_DIVISIONS) : EXPECTED_DIVISIONS[i] = division) - 1
  ELSE Len(EXPECTED_DIVISIONS)

\* dict.get(col, default)
Get(row, col, default) == IF col \in DOMAIN row THEN row[col] ELSE default

\* An insertion-ordered dict is a sequence of [k, v] entries with distinct keys.
HasKey(d, k) == \E i \in 1..Len(d) : d[i].k = k

KeyAt(d, k) == CHOOSE i \in 1..Len(d) : d[i].k = k

Lookup(d, k) == d[KeyAt(d, k)].v

\* d[k] = v: a key already present keeps its place.
Store(d, k, v) ==
  IF HasKey(d, k) THEN [d EXCEPT ![KeyAt(d, k)].v = v] ELSE Append(d, [k |-> k, v |-> v])

Keys(d) == [i \in 1..Len(d) |-> d[i].k]

Values(d) == [i \in 1..Len(d) |-> d[i].v]

\* One turn of the loop of parse_csv: st is [raised, result] so far, with
\* result the dict athletes_by_name.  None.strip() raises AttributeError.
ParseRow(st, row) ==
  IF st.raised THEN st
  ELSE IF Get(row, "Name", <<>>) = None THEN [st EXCEPT !.raised = TRUE]
  ELSE IF strip(Get(row, "Name", <<>>)) = <<>> THEN st
  ELSE IF Get(row, "Division", <<>>) = None THEN [st EXCEPT !.raised = TRUE]
  ELSE LET name == strip(Get(row, "Name", <<>>))
           current_rank == get_division_rank(strip(Get(row, "Division", <<>>)))
       IN IF HasKey(st.result, name)
          THEN LET existing_division ==
                     strip(Get(Lookup(st.result, name), "Division", <<>>))
                   existing_rank == get_division_rank(existing_division)
               IN IF current_rank < existing_rank
                  THEN [st EXCEPT !.result = Store(st.result, name, row)]
                  ELSE st
          ELSE [st EXCEPT !.result = Store(st.result, name, row)]

\* The loop of parse_csv over the rows from the first-th on.
ParseLoop(rs0, first) ==
  CHOOSE out \in
    {LET last == IF Len(rs) < first - 1 THEN first - 1 ELSE Len(rs)
         loop[i \in (first - 1)..last] ==
           IF i = first - 1 THEN [raised |-> FALSE, result |-> <<>>]
           ELSE CHOOSE r \in {ParseRow(st, row) : st \in {loop[i - 1]}, row \in {rs[i]}} : TRUE
     IN loop[last] : rs \in {rs0}} : TRUE

\* A defect parse_csv could have: the first data row skipped as if it were
\* the header.
parse_csv_skips_first(rs) == ParseLoop(rs, 2)

\* A defect parse_csv could have: every row stored under a key of its own,
\* so that nothing is collapsed.
parse_csv_keeps_all(rs) ==
  [raised |-> FALSE,
   result |-> [i \in 1..Len(rs) |-> [k |-> <<strip(Get(rs[i], "Name", <<>>)), i>>, v |-> rs[i]]]]

\* parse_csv: [raised |-> whether an exception ended it, result |-> the dict].
parse_csv(rs) == ParseLoop(rs, 1)

\* The key group_athletes files an athlete under.
group_key_of(athlete) ==
  <<strip(Get(athlete, "Sex", <<>>)),
    strip(Get(athlete, "WeightClassKg", <<>>)),
    strip(Get(athlete, "Division", <<>>))>>

\* One turn of the loop of group_athletes: groups.setdefault(key, []).append.
GroupRow(st, athlete) ==
  IF st.raised THEN st
  ELSE IF \/ Get(athlete, "Sex", <<>>) = None
          \/ Get(athlete, "WeightClassKg", <<>>) = None
          \/ Get(athlete, "Division", <<>>) = None
  THEN [st EXCEPT !.raised = TRUE]
  ELSE LET key == group_key_of(athlete)
           old == IF HasKey(st.result, key) THEN Lookup(st.result, key) ELSE <<>>
       IN [st EXCEPT !.result = Store(st.result, key, Append(old, athlete))]

\* group_athletes: [raised, result |-> the dict groups].
group_athletes(d0) ==
  CHOOSE out \in
    {LET loop[i \in 0..Len(d)] ==
           IF i = 0 THEN [raised |-> FALSE, result |-> <<>>]
           ELSE CHOOSE r \in {GroupRow(st, a) : st \in {loop[i - 1]}, a \in {d[i].v}} : TRUE
     IN loop[Len(d)] : d \in {d0}} : TRUE

\* group_sort_key: (sex.lower(), str(weight), rank), where weight is
\* float(weightclass), or weightclass itself when float raises ValueError.
group_sort_key(key) ==
  CHOOSE r \in
    {<<lower(key[1]), IF f.ok THEN FloatStr(f.val) ELSE key[2], get_division_rank(key[3])>> :
       f \in {float(key[2])}} : TRUE

\* a < b for two tuples (str, str, int), as Python compares tuples.
GroupKeyLess(a, b) ==
  IF a[1] # b[1] THEN StrLess(a[1], b[1])
  ELSE IF a[2] # b[2] THEN StrLess(a[2], b[2])
  ELSE a[3] < b[3]

\* x put into a sorted sequence of [key, item] pairs, before the first one
\* it is less than: the step of a stable sort.
InsertGroupKey(sorted, x) ==
  LET after == {j \in 1..Len(sorted) : GroupKeyLess(x.key, sorted[j].key)}
      p == IF after = {} THEN Len(sorted) + 1 ELSE Min(after)
  IN SubSeq(sorted, 1, p - 1) \o <<x>> \o SubSeq(sorted, p, Len(sorted))

\* sorted(groups.keys(), key=group_sort_key)
sorted_keys(ks0) ==
  CHOOSE out \in
    {LET loop[i \in 0..Len(ks)] ==
           IF i = 0 THEN <<>>
           ELSE CHOOSE r \in
                  {InsertGroupKey(acc, [key |-> k, item |-> ks[i]]) :
                     acc \in {loop[i - 1]}, k \in {group_sort_key(ks[i])}} : TRUE
     IN [i \in 1..Len(ks) |-> loop[Len(ks)][i].item] : ks \in {ks0}} : TRUE

\* float(athlete.get(col, 0)) under try/except ValueError: the number in
\* tenths, 0 for text float rejects and for an absent column (float(0));
\* float(None) raises TypeError, which the handler does not catch.
FloatOrZero(athlete, col) ==
  IF col \notin DOMAIN athlete THEN [raised |-> FALSE, val |-> 0]
  ELSE IF athlete[col] = None THEN [raised |-> TRUE, val |-> 0]
  ELSE [raised |-> FALSE, val |-> float(athlete[col]).val]

\* A defect sort_key could have: the heavier lifter first on equal metric.
sort_key_heavier_first(athlete, metric) ==
  CHOOSE r \in
    {[raised |-> m.raised \/ b.raised, key |-> <<0 - m.val, 0 - b.val>>] :
       m \in {FloatOrZero(athlete, metric)}, b \in {FloatOrZero(athlete, "BodyweightKg")}} : TRUE

\* sort_key of print_group_metric_table: (-metric_val, bodyweight).
sort_key(athlete, metric) ==
  CHOOSE r \in
    {[raised |-> m.raised \/ b.raised, key |-> <<0 - m.val, b.val>>] :
       m \in {FloatOrZero(athlete, metric)}, b \in {FloatOrZero(athlete, "BodyweightKg")}} : TRUE

\* a < b for two tuples (float, float).
SortKeyLess(a, b) == a[1] < b[1] \/ (a[1] = b[1] /\ a[2] < b[2])

InsertAthlete(sorted, x) ==
  LET after == {j \in 1..Len(sorted) : SortKeyLess(x.key, sorted[j].key)}
      p == IF after = {} THEN Len(sorted) + 1 ELSE Min(after)
  IN SubSeq(sorted, 1, p - 1) \o <<x>> \o SubSeq(sorted, p, Len(sorted))

\* sorted(athletes, key=sort_key), for athletes whose keys do not raise.
sorted_athletes(as0, metric) ==
  CHOOSE out \in
    {LET loop[i \in 0..Len(as)] ==
           IF i = 0 THEN <<>>
           ELSE CHOOSE r \in
                  {InsertAthlete(acc, [key |-> k.key, item |-> as[i]]) :
                     acc \in {loop[i - 1]}, k \in {sort_key(as[i], metric)}} : TRUE
     IN [i \in 1..Len(as) |-> loop[Len(as)][i].item] : as \in {as0}} : TRUE

\* The columns print_group_metric_table prints with .get(col, "").strip().
PrintedColumns ==
  {"Name", "Division", "Sex", "WeightClassKg", "BodyweightKg",
   "Best3SquatKg", "Best3BenchKg", "Best3DeadliftKg", "TotalKg"}

TopN == 3

\* A defect of the slice: one athlete too many.
top_slice_one_more(as) == SubSeq(as, 1, IF Len(as) < TopN + 1 THEN Len(as) ELSE TopN + 1)

\* sorted_athletes[:3]
top_slice(as) == SubSeq(as, 1, IF Len(as) < TopN THEN Len(as) ELSE TopN)

\* print_group_metric_table: the top athletes it prints, or the exception
\* that ends it: sort_key's TypeError on a None number, or the
\* AttributeError of None.strip() while a row is printed.
print_group_metric_table(group_key, athletes, metric) ==
  IF \E i \in 1..Len(athletes) : sort_key(athletes[i], metric).raised
  THEN [raised |-> TRUE, top_athletes |-> <<>>]
  ELSE CHOOSE r \in
         {[raised |-> \E i \in 1..Len(top) :
                         \E c \in PrintedColumns : Get(top[i], c, <<>>) = None,
           top_athletes |-> top] :
            top \in {top_slice(sorted_athletes(athletes, metric))}} : TRUE

\* main's metrics, in its order.
metrics == <<"Best3SquatKg", "Best3BenchKg", "Best3DeadliftKg", "TotalKg">>

\* The inner loop of main for one group: the tables printed, and whether
\* an exception ended the run.
TablesOf(group_key, athletes0) ==
  CHOOSE out \in
    {LET loop[j \in 0..Len(metrics)] ==
           IF j = 0 THEN [raised |-> FALSE, result |-> <<>>]
           ELSE CHOOSE r \in
                  {IF st.raised THEN st
                   ELSE CHOOSE r2 \in
                          {IF t.raised THEN [st EXCEPT !.raised = TRUE]
                           ELSE [st EXCEPT !.result =
                                   Append(@, [group_key |-> group_key, metric |-> metrics[j],
                                              top_athletes |-> t.top_athletes])] :
                             t \in {print_group_metric_table(group_key, athletes, metrics[j])}} : TRUE :
                     st \in {loop[j - 1]}} : TRUE
     IN loop[Len(metrics)] : athletes \in {athletes0}} : TRUE

----------------------------------------------------------------------------
(* The run of main2.py as a state machine. *)

ParseCsv ==
  /\ pc = "parse_csv"
  /\ LET r == parse_csv(rows)
     IN /\ athletes_by_name' = r.result
        /\ pc' = IF r.raised THEN "raised" ELSE "group_athletes"
  /\ UNCHANGED <<rows, groups, sorted_group_keys, gi, tables>>
  /\ UNCHANGED webVars

GroupAthletes ==
  /\ pc = "group_athletes"
  /\ LET r == group_athletes(athletes_by_name)
     IN /\ groups' = r.result
        /\ pc' = IF r.raised THEN "raised" ELSE "sort_keys"
  /\ UNCHANGED <<rows, athletes_by_name, sorted_group_keys, gi, tables>>
  /\ UNCHANGED webVars

SortGroupKeys ==
  /\ pc = "sort_keys"
  /\ sorted_group_keys' = sorted_keys(Keys(groups))
  /\ gi' = 1
  /\ pc' = "tables"
  /\ UNCHANGED <<rows, athletes_by_name, groups, tables>>
  /\ UNCHANGED webVars

PrintCategory ==
  /\ pc = "tables"
  /\ gi <= Len(sorted_group_keys)
  /\ LET group_key == sorted_group_keys[gi]
         r == TablesOf(group_key, Lookup(groups, group_key))
     IN /\ tables' = tables \o r.result
        /\ pc' = IF r.raised THEN "raised" ELSE "tables"
  /\ gi' = gi + 1
  /\ UNCHANGED <<rows, athletes_by_name, groups, sorted_group_keys>>
  /\ UNCHANGED webVars

Exit ==
  /\ pc = "tables"
  /\ gi > Len(sorted_group_keys)
  /\ pc' = "done"
  /\ UNCHANGED <<rows, athletes_by_name, groups, sorted_group_keys, gi, tables>>
  /\ UNCHANGED webVars

Next == ParseCsv \/ GroupAthletes \/ SortGroupKeys \/ PrintCategory \/ Exit

\* No upload handler runs beside a command-line run.
NoWeb ==
  /\ rpc = <<>>
  /\ upload = <<>>
  /\ files = <<>>
  /\ output = <<>>

Start(rs) ==
  /\ rows = rs
  /\ pc = "parse_csv"
  /\ athletes_by_name = <<>>
  /\ groups = <<>>
  /\ sorted_group_keys = <<>>
  /\ gi = 0
  /\ tables = <<>>
  /\ NoWeb

----------------------------------------------------------------------------
(* Input files. *)

Al == <<"A", "l">>

Bo == <<" ", "B", "o">>

F == <<"F">>

M == <<"M">>

M1 == <<"M", "1", " ">>

Open == <<"O", "p", "e", "n">>

\* The files of the deduplication checks: up to MaxRows rows whose Name,
\* Sex and Division vary (each may be empty, and come with blanks around
\* it); the weight class alternates and TotalKg tells the rows apart.
DedupFields ==
  [Name : {Al, Bo}, Sex : {F, M}, Division : {M1, Open}]
    \cup {[Name |-> <<>>, Sex |-> F, Division |-> M1],
          [Name |-> <<" ">>, Sex |-> M, Division |-> Open],
          [Name |-> Al, Sex |-> <<>>, Division |-> M1],
          [Name |-> Bo, Sex |-> <<" ">>, Division |-> Open],
          [Name |-> Al, Sex |-> F, Division |-> <<>>],
          [Name |-> Bo, Sex |-> M, Division |-> <<" ">>]}

DedupRow(f, i) ==
  [Name |-> f.Name, Sex |-> f.Sex, Division |-> f.Division,
   WeightClassKg |-> IF i % 2 = 1 THEN <<"6", "0">> ELSE <<"1", "0", "0">>,
   TotalKg |-> NatStr(200 + i)]

InitDedup ==
  \E n \in 0..MaxRows :
    \E fs \in [1..n -> DedupFields] :
      Start([i \in 1..n |-> DedupRow(fs[i], i)])

SpecDedup == InitDedup /\ [][Next]_vars

----------------------------------------------------------------------------
(* Deduplication: C1, C2, C7, C8, C9. *)

\* AthleteIdentity: (name, sex) after trimming.
Identity(row) == <<strip(row.Name), strip(row.Sex)>>

\* A row none of whose Name, Sex, Division is empty after trimming.
Complete(row) ==
  /\ strip(row.Name) # <<>>
  /\ strip(row.Sex) # <<>>
  /\ strip(row.Division) # <<>>

RankOf(row) == get_division_rank(strip(row.Division))

\* parse_csv has returned.
DedupDone == pc \in {"group_athletes", "sort_keys", "tables", "done"}

\* group_athletes has returned.
GroupDone == pc \in {"sort_keys", "tables", "done"}

\* The places in rs of the complete rows of identity id.
RowsOf(rs, id) == {i \in 1..Len(rs) : Complete(rs[i]) /\ Identity(rs[i]) = id}

\* The identities that have a complete row in rs.
Identities(rs) == {Identity(rs[i]) : i \in {j \in 1..Len(rs) : Complete(rs[j])}}

\* The first of the rows of identity id with the lowest DivisionRank.
Canonical(rs, id) ==
  LET lowest == Min({RankOf(rs[i]) : i \in RowsOf(rs, id)})
  IN rs[Min({i \in RowsOf(rs, id) : RankOf(rs[i]) = lowest})]

\* The records a dict holds for identity id.
HeldFor(d, id) == {d[i].v : i \in {j \in 1..Len(d) : Identity(d[j].v) = id}}

\* C1: for every identity with a complete row, the deduplicator's result
\* holds exactly the identity's first row of lowest DivisionRank, whatever
\* the rows of other identities are.
C1_LowestRankPerIdentity ==
  DedupDone =>
    \A id \in Identities(rows) : HeldFor(athletes_by_name, id) = {Canonical(rows, id)}

\* The rows of rs that are complete, in order.
CompleteRows(rs) == SelectSeq(rs, Complete)

\* C2: no row with an empty Name, Sex or Division is in the deduplicator's
\* result or in a cohort, and the result for the other rows is the one
\* the complete rows alone give.
C2_IncompleteRowsDropped ==
  /\ DedupDone =>
       /\ \A i \in 1..Len(athletes_by_name) : Complete(athletes_by_name[i].v)
       /\ \A id \in Identities(rows) :
            HeldFor(athletes_by_name, id) = HeldFor(parse_csv(CompleteRows(rows)).result, id)
  /\ GroupDone =>
       \A i \in 1..Len(groups) : \A j \in 1..Len(groups[i].v) : Complete(groups[i].v[j])

\* C7: the deduplicator run on the records of its own result, in the
\* result's order, returns that result.
C7_DedupIdempotent ==
  DedupDone =>
    parse_csv(Values(athletes_by_name)) = [raised |-> FALSE, result |-> athletes_by_name]

\* A run in which two rows of one name were collapsed and two names remain.
C7_Witness ==
  /\ DedupDone
  /\ Len(athletes_by_name) = 2
  /\ Len(rows) = MaxRows
  /\ \A i \in 1..Len(rows) : strip(rows[i].Name) # <<>>

\* The permutations of 1..n.
Perms(n) == {p \in [1..n -> 1..n] : \A i, j \in 1..n : p[i] = p[j] => i = j}

\* C8: for every permutation of the input, both runs retain every identity
\* that has a complete row, with a division of that identity's lowest
\* DivisionRank.
C8_OrderIndependent ==
  DedupDone =>
    \A p \in Perms(Len(rows)) :
      LET other == parse_csv([i \in 1..Len(rows) |-> rows[p[i]]]).result
      IN \A id \in Identities(rows) :
           LET lowest == RankOf(Canonical(rows, id))
           IN /\ \E r \in HeldFor(athletes_by_name, id) : RankOf(r) = lowest
              /\ \E r \in HeldFor(other, id) : RankOf(r) = lowest

\* The number of places at which a record of identity id stands in the
\* cohorts.
PlacesInGroups(id) ==
  Cardinality({<<i, j>> \in (1..Len(groups)) \X (1..Len(rows)) :
                 j <= Len(groups[i].v) /\ Identity(groups[i].v[j]) = id})

\* The number of places at which a record of identity id stands in the
\* leaderboards of metric m printed so far.
PlacesInTables(id, m) ==
  Cardinality({<<i, j>> \in (1..Len(tables)) \X (1..TopN) :
                 /\ tables[i].metric = m
                 /\ j <= Len(tables[i].top_athletes)
                 /\ Identity(tables[i].top_athletes[j]) = id})

\* C9: every identity has at most one canonical record; after grouping
\* that record stands in exactly one cohort, the one keyed by its own
\* trimmed (Sex, WeightClassKg, Division); and in the leaderboards of one
\* metric an identity stands at most once.
C9_OneRecordOneCohort ==
  /\ DedupDone =>
       \A i, j \in 1..Len(athletes_by_name) :
         Identity(athletes_by_name[i].v) = Identity(athletes_by_name[j].v) => i = j
  /\ GroupDone =>
       /\ \A i \in 1..Len(athletes_by_name) :
            LET a == athletes_by_name[i].v
            IN /\ PlacesInGroups(Identity(a)) = 1
               /\ \E g \in 1..Len(groups) :
                    /\ groups[g].k = <<strip(a.Sex), strip(a.WeightClassKg), strip(a.Division)>>
                    /\ \E j \in 1..Len(groups[g].v) : groups[g].v[j] = a
       /\ \A g \in 1..Len(groups) : \A j \in 1..Len(groups[g].v) :
            \E i \in 1..Len(athletes_by_name) : athletes_by_name[i].v = groups[g].v[j]
       /\ \A g, h \in 1..Len(groups) : groups[g].k = groups[h].k => g = h
  /\ \A i \in 1..Len(athletes_by_name) : \A m \in 1..Len(metrics) :
       PlacesInTables(Identity(athletes_by_name[i].v), metrics[m]) <= 1

\* A finished run on an athlete entered in two divisions and two weight
\* classes, with a second athlete beside.
C9_Witness ==
  /\ pc = "done"
  /\ Len(groups) = 2
  /\ \E i, j \in 1..Len(rows) :
       /\ Complete(rows[i]) /\ Complete(rows[j])
       /\ Identity(rows[i]) = Identity(rows[j])
       /\ RankOf(rows[i]) # RankOf(rows[j])
       /\ rows[i].WeightClassKg # rows[j].WeightClassKg
  /\ \E i \in 1..Len(tables) : tables[i].top_athletes # <<>>

----------------------------------------------------------------------------
(* Ranking: C3, C6. *)

\* The files of the ranking checks: one cohort of up to MaxCohort athletes
\* whose TotalKg and BodyweightKg are numbers, empty or other text.  The
\* header has no Best3 columns, or no BodyweightKg column either.
RankFields ==
  {[TotalKg |-> <<"1", "0", "0">>, BodyweightKg |-> <<"8", "0">>],
   [TotalKg |-> <<"1", "0", "0">>, BodyweightKg |-> <<" ", "7", "5", ".", "5">>],
   [TotalKg |-> <<"1", "0", "0">>, BodyweightKg |-> <<"x">>],
   [TotalKg |-> <<"9", "0", ".", "5">>, BodyweightKg |-> <<"8", "0">>],
   [TotalKg |-> <<>>, BodyweightKg |-> <<"8", "0">>],
   [TotalKg |-> <<"x">>, BodyweightKg |-> <<>>]}

RankRow(f, i) ==
  [Name |-> <<"A", DigitChar(i)>>, Sex |-> F, Division |-> Open,
   WeightClassKg |-> <<"6", "0">>, BodyweightKg |-> f.BodyweightKg, TotalKg |-> f.TotalKg]

LeanRow(t, i) ==
  [Name |-> <<"A", DigitChar(i)>>, Sex |-> F, Division |-> Open,
   WeightClassKg |-> <<"6", "0">>, TotalKg |-> t]

InitRank ==
  \E n \in 1..MaxCohort :
    \/ \E fs \in [1..n -> RankFields] : Start([i \in 1..n |-> RankRow(fs[i], i)])
    \/ \E ts \in [1..n -> {f.TotalKg : f \in RankFields}] :
         Start([i \in 1..n |-> LeanRow(ts[i], i)])

SpecRank == InitRank /\ [][Next]_vars

\* What a metric or a bodyweight counts as, in tenths: its number, and 0
\* when it is missing or is no number.
CountsAs(row, col) ==
  IF col \notin DOMAIN row \/ Get(row, col, <<>>) = None THEN 0
  ELSE CHOOSE v \in {IF f.ok THEN f.val ELSE 0 : f \in {float(row[col])}} : TRUE

\* The place of a record in a sequence of distinct records, 0 if absent.
PlaceIn(seq, x) ==
  IF \E i \in 1..Len(seq) : seq[i] = x THEN CHOOSE i \in 1..Len(seq) : seq[i] = x ELSE 0

\* What ranks a record of a cohort for metric m: <<metric, bodyweight,
\* place in the cohort>>.
Standing(cohort, m, x) ==
  <<CountsAs(x, m), CountsAs(x, "BodyweightKg"), PlaceIn(cohort, x)>>

\* The record of standing x is ranked ahead of the one of standing y: a
\* higher metric, or the same metric and a lower bodyweight, or both the
\* same and an earlier place in the cohort.
Ahead(x, y) ==
  \/ x[1] > y[1]
  \/ x[1] = y[1] /\ x[2] < y[2]
  \/ x[1] = y[1] /\ x[2] = y[2] /\ x[3] < y[3]

\* A leaderboard is in ranking order: whoever of the cohort is ranked ahead
\* of one of its records stands in it, above that record.
InOrder(t) ==
  \A cohort \in {Lookup(groups, t.group_key)} :
    \A i \in 1..Len(t.top_athletes) :
      \A x \in {Standing(cohort, t.metric, t.top_athletes[i])} :
        \A j \in 1..Len(cohort) :
          Ahead(Standing(cohort, t.metric, cohort[j]), x) =>
            /\ PlaceIn(t.top_athletes, cohort[j]) > 0
            /\ PlaceIn(t.top_athletes, cohort[j]) < i

\* C3: every leaderboard is ordered by metric descending, then bodyweight
\* ascending, a missing or unparseable number counting as 0, and records
\* equal on both keep their cohort order.
C3_RankingOrder == \A i \in 1..Len(tables) : InOrder(tables[i])

\* A TotalKg leaderboard settled by the bodyweight tie-break: two records
\* of equal total, the lighter one later in the cohort but first in the
\* leaderboard, and a lower total third.
C3_Witness ==
  \E i \in 1..Len(tables) :
    LET top == tables[i].top_athletes
        cohort == Lookup(groups, tables[i].group_key)
    IN /\ tables[i].metric = "TotalKg"
       /\ Len(top) = TopN
       /\ CountsAs(top[1], "TotalKg") = CountsAs(top[2], "TotalKg")
       /\ CountsAs(top[1], "BodyweightKg") < CountsAs(top[2], "BodyweightKg")
       /\ PlaceIn(cohort, top[1]) > PlaceIn(cohort, top[2])
       /\ CountsAs(top[3], "TotalKg") < CountsAs(top[2], "TotalKg")
       /\ CountsAs(top[3], "TotalKg") > 0
       /\ \E j \in 1..Len(cohort) : cohort[j].TotalKg = <<>>

\* C6: a leaderboard holds min(3, size of the cohort) records, each a
\* member of the cohort, none twice.
C6_TopThree ==
  \A i \in 1..Len(tables) :
    LET top == tables[i].top_athletes
        cohort == Lookup(groups, tables[i].group_key)
    IN /\ Len(top) = IF Len(cohort) < 3 THEN Len(cohort) ELSE 3
       /\ \A j \in 1..Len(top) : PlaceIn(cohort, top[j]) > 0
       /\ \A j, k \in 1..Len(top) : top[j] = top[k] => j = k

\* A finished run with leaderboards cut to three from a cohort of more, and
\* one of a cohort of fewer.
C6_Witness ==
  /\ pc = "done"
  /\ \E i \in 1..Len(tables) :
       /\ Len(Lookup(groups, tables[i].group_key)) > TopN
       /\ Len(tables[i].top_athletes) = TopN

----------------------------------------------------------------------------
(* Cohort display order: C4. *)

\* The files of the display-order checks: up to MaxKeys athletes of varying
\* sex, weight class and division.
KeyFields ==
  [Sex : {F, <<"f">>, M},
   WeightClassKg : {<<"6", "0">>, <<"1", "0", "0">>, <<"9", "0", "+">>},
   Division : {Open, M1}]

KeyRow(f, i) ==
  [Name |-> <<"A", DigitChar(i)>>, Sex |-> f.Sex, Division |-> f.Division,
   WeightClassKg |-> f.WeightClassKg, TotalKg |-> <<"1", "0", "0">>]

InitKeys ==
  \E n \in 1..MaxKeys :
    \E fs \in [1..n -> KeyFields] : Start([i \in 1..n |-> KeyRow(fs[i], i)])

SpecKeys == InitKeys /\ [][Next]_vars

\* Cohort a is presented before cohort b: by sex without regard to case,
\* then by weight class, as numbers when both are numbers and as text
\* otherwise, then by DivisionRank.
Before(a, b) ==
  IF lower(a[1]) # lower(b[1]) THEN StrLess(lower(a[1]), lower(b[1]))
  ELSE IF a[2] # b[2] /\ ~(float(a[2]).ok /\ float(b[2]).ok /\ float(a[2]).val = float(b[2]).val)
       THEN IF float(a[2]).ok /\ float(b[2]).ok
            THEN float(a[2]).val < float(b[2]).val
            ELSE StrLess(a[2], b[2])
  ELSE get_division_rank(a[3]) < get_division_rank(b[3])

\* C4: the sorted cohort keys are in the display order (no cohort stands
\* after one it is to be presented before), and every order of the same
\* rows gives the same sequence of keys.
C4_DisplayOrder ==
  pc \in {"tables", "done"} =>
    /\ \A i, j \in 1..Len(sorted_group_keys) :
         i < j => ~Before(sorted_group_keys[j], sorted_group_keys[i])
    /\ \A p \in Perms(Len(rows)) :
         LET d == parse_csv([i \in 1..Len(rows) |-> rows[p[i]]]).result
         IN sorted_keys(Keys(group_athletes(d).result)) = sorted_group_keys

----------------------------------------------------------------------------
(* Rows with fields that are no number or are missing: C5. *)

\* The columns of the files of these checks, in the header's order.
Header == <<"Name", "Sex", "Division", "WeightClassKg", "BodyweightKg", "TotalKg">>

\* A row of n fields under the header: csv.DictReader gives the columns
\* past the n-th the value None.
ShortRow(row, n) ==
  [c \in DOMAIN row |->
     IF \E k \in 1..n : Header[k] = c THEN row[c] ELSE None]

RowFields ==
  [TotalKg : {<<"1", "0", "0">>, <<>>},
   BodyweightKg : {<<"8", "0">>, <<"x">>},
   cut : {Len(Header)}]
    \cup [TotalKg : {<<"1", "0", "0">>}, BodyweightKg : {<<"8", "0">>}, cut : 1..(Len(Header) - 1)]

InitRows ==
  \E n \in 1..MaxRows :
    \E fs \in [1..n -> RowFields] :
      Start([i \in 1..n |-> ShortRow(RankRow(fs[i], i), fs[i].cut)])

SpecRows == InitRows /\ [][Next]_vars

\* C5: no row ends the run with an exception, whatever of its fields are
\* no number, empty or missing; such a number is ranked as 0.
C5_NeverRaises ==
  /\ pc # "raised"
  /\ \A i \in 1..Len(tables) : InOrder(tables[i])

----------------------------------------------------------------------------
(* renderer.py *)

\* The loop of main over the sorted group keys: the tables printed, and
\* whether an exception ended the run.
AllTables(groups0, keys0) ==
  CHOOSE out \in
    {LET loop[i \in 0..Len(ks)] ==
           IF i = 0 THEN [raised |-> FALSE, result |-> <<>>]
           ELSE CHOOSE r \in
                  {IF st.raised THEN st
                   ELSE CHOOSE r2 \in
                          {[raised |-> t.raised, result |-> st.result \o t.result] :
                             t \in {TablesOf(ks[i], Lookup(g, ks[i]))}} : TRUE :
                     st \in {loop[i - 1]}} : TRUE
     IN loop[Len(ks)] : g \in {groups0}, ks \in {keys0}} : TRUE

\* main of main2.py on a file of the given rows: what the process prints
\* and whether it ends with an exception (a non-zero exit status).
main(rs) ==
  CHOOSE out \in
    {IF d.raised THEN [raised |-> TRUE, result |-> <<>>]
     ELSE CHOOSE out2 \in
            {IF g.raised THEN [raised |-> TRUE, result |-> <<>>]
             ELSE AllTables(g.result, sorted_keys(Keys(g.result))) :
               g \in {group_athletes(d.result)}} : TRUE :
       d \in {parse_csv(rs)}} : TRUE

\* What upload_file renders for a run of main2.py: its stdout, or the
\* error message of the except branch (check=True raises
\* CalledProcessError on a non-zero exit status).
OutputOf(run) ==
  IF run.raised THEN [error |-> TRUE, stdout |-> <<>>, stderr |-> "Traceback: row"]
  ELSE [error |-> FALSE, stdout |-> run.result, stderr |-> ""]

\* werkzeug's secure_filename on text over letters, digits, ".", "_", "-",
\* "/" and blanks: path separators become blanks, runs of blanks one "_"
\* (none at the ends), other characters are dropped, and "." and "_" are
\* stripped from both ends.
SafeChar(c) ==
  \/ Ord(c) >= 48 /\ Ord(c) <= 57
  \/ Ord(c) >= 65 /\ Ord(c) <= 90
  \/ Ord(c) >= 97 /\ Ord(c) <= 122
  \/ c \in {"_", ".", "-"}

secure_filename(filename) ==
  LET spaced == strip([i \in 1..Len(filename) |-> IF filename[i] = "/" THEN " " ELSE filename[i]])
      kept == {i \in 1..Len(spaced) :
                 IF spaced[i] = " " THEN spaced[i - 1] # " " ELSE SafeChar(spaced[i])}
      joined == [n \in 1..Cardinality(kept) |->
                   LET i == CHOOSE i \in kept : Cardinality({j \in kept : j <= i}) = n
                   IN IF spaced[i] = " " THEN "_" ELSE spaced[i]]
      inner == {i \in 1..Len(joined) : joined[i] \notin {".", "_"}}
  IN IF inner = {} THEN <<>> ELSE SubSeq(joined, Min(inner), Max(inner))

UPLOAD_FOLDER == <<"u", "p", "l", "o", "a", "d", "s">>

\* os.path.join(app.config['UPLOAD_FOLDER'], filename)
PathOf(filename) == UPLOAD_FOLDER \o <<"/">> \o secure_filename(filename)

Requests == 1..NumRequests

\* The files clients upload.
FileOne == <<KeyRow([Sex |-> F, WeightClassKg |-> <<"6", "0">>, Division |-> Open], 1)>>

FileTwo == <<KeyRow([Sex |-> M, WeightClassKg |-> <<"9", "0", "+">>, Division |-> M1], 2)>>

FileShort ==
  <<ShortRow(RankRow([TotalKg |-> <<"1", "0", "0">>, BodyweightKg |-> <<"8", "0">>], 1), 1)>>

\* The requests clients send: a GET, a POST without a file part, a POST
\* with an empty filename, and a POST of a file under a name.
Uploads ==
  [method : {"GET"}, part : {FALSE}, filename : {<<>>}, content : {<<>>}]
    \cup [method : {"POST"}, part : {FALSE}, filename : {<<>>}, content : {<<>>}]
    \cup [method : {"POST"}, part : {TRUE}, filename : {<<>>}, content : {<<>>}]
    \cup [method : {"POST"}, part : {TRUE},
          filename : {<<"a", ".", "c", "s", "v">>, <<"/", "a", ".", "c", "s", "v">>,
                      <<"b", " ", "c", ".", "c", "s", "v">>},
          content : {FileOne, FileTwo, FileShort}]

NoOutput == [error |-> FALSE, stdout |-> <<>>, stderr |-> ""]

\* The handler of request r has not started: nothing is running yet.
InitWeb ==
  /\ upload \in [Requests -> Uploads]
  /\ rpc = [r \in Requests |-> "start"]
  /\ files = <<>>
  /\ output = [r \in Requests |-> NoOutput]
  /\ pc = "idle"
  /\ rows = <<>>
  /\ athletes_by_name = <<>>
  /\ groups = <<>>
  /\ sorted_group_keys = <<>>
  /\ gi = 0
  /\ tables = <<>>

\* files is the upload folder: a dict from path to content.
\* GET: the form is rendered with output ''.
GetForm(r) ==
  /\ rpc[r] = "start"
  /\ upload[r].method = "GET"
  /\ rpc' = [rpc EXCEPT ![r] = "rendered"]
  /\ UNCHANGED <<upload, files, output>>
  /\ UNCHANGED pipeVars

\* 'file' not in request.files: flash and redirect.
NoFilePart(r) ==
  /\ rpc[r] = "start"
  /\ upload[r].method = "POST"
  /\ ~upload[r].part
  /\ rpc' = [rpc EXCEPT ![r] = "redirected"]
  /\ UNCHANGED <<upload, files, output>>
  /\ UNCHANGED pipeVars

\* file.filename == '': flash and redirect.
NoFileSelected(r) ==
  /\ rpc[r] = "start"
  /\ upload[r].method = "POST"
  /\ upload[r].part
  /\ upload[r].filename = <<>>
  /\ rpc' = [rpc EXCEPT ![r] = "redirected"]
  /\ UNCHANGED <<upload, files, output>>
  /\ UNCHANGED pipeVars

\* file.save(filepath)
SaveFile(r) ==
  /\ rpc[r] = "start"
  /\ upload[r].method = "POST"
  /\ upload[r].part
  /\ upload[r].filename # <<>>
  /\ files' = Store(files, PathOf(upload[r].filename), upload[r].content)
  /\ rpc' = [rpc EXCEPT ![r] = "saved"]
  /\ UNCHANGED <<upload, output>>
  /\ UNCHANGED pipeVars

\* subprocess.run(["python", "main2.py", filepath], check=True): main2.py
\* reads what is at filepath now; open() raises when nothing is.
RunMain2(r) ==
  /\ rpc[r] = "saved"
  /\ LET filepath == PathOf(upload[r].filename)
     IN output' = [output EXCEPT ![r] =
                     IF HasKey(files, filepath)
                     THEN OutputOf(main(Lookup(files, filepath)))
                     ELSE [error |-> TRUE, stdout |-> <<>>,
                           stderr |-> "Traceback: FileNotFoundError"]]
  /\ rpc' = [rpc EXCEPT ![r] = "ran"]
  /\ UNCHANGED <<upload, files>>
  /\ UNCHANGED pipeVars

\* if os.path.exists(filepath):
CheckExists(r) ==
  /\ rpc[r] = "ran"
  /\ rpc' = [rpc EXCEPT ![r] =
               IF HasKey(files, PathOf(upload[r].filename)) THEN "exists" ELSE "render"]
  /\ UNCHANGED <<upload, files, output>>
  /\ UNCHANGED pipeVars

\* os.remove(filepath): FileNotFoundError, uncaught, when the file has gone
\* since the check.
RemoveFile(r) ==
  /\ rpc[r] = "exists"
  /\ LET filepath == PathOf(upload[r].filename)
     IN IF HasKey(files, filepath)
        THEN /\ files' = SelectSeq(files, LAMBDA e : e.k # filepath)
             /\ rpc' = [rpc EXCEPT ![r] = "render"]
        ELSE /\ files' = files
             /\ rpc' = [rpc EXCEPT ![r] = "failed"]
  /\ UNCHANGED <<upload, output>>
  /\ UNCHANGED pipeVars

\* render_template('index.html', output=output)
Render(r) ==
  /\ rpc[r] = "render"
  /\ rpc' = [rpc EXCEPT ![r] = "rendered"]
  /\ UNCHANGED <<upload, files, output>>
  /\ UNCHANGED pipeVars

\* The server handles requests concurrently (app.run is threaded): the
\* steps of different requests interleave.
NextWeb ==
  \E r \in Requests :
    \/ GetForm(r)
    \/ NoFilePart(r)
    \/ NoFileSelected(r)
    \/ SaveFile(r)
    \/ RunMain2(r)
    \/ CheckExists(r)
    \/ RemoveFile(r)
    \/ Render(r)

SpecWeb == InitWeb /\ [][NextWeb]_vars

\* Request r uploads a file.
IsUpload(r) == upload[r].method = "POST" /\ upload[r].part /\ upload[r].filename # <<>>

\* C10: what an upload renders is the result of main2.py on the content
\* that same request saved, and the file a request saved is on disk,
\* unchanged, until main2.py has run on it.
C10_UploadsIsolated ==
  \A r \in Requests :
    IsUpload(r) =>
      /\ rpc[r] \in {"ran", "exists", "render", "rendered", "failed"} =>
           output[r] = OutputOf(main(upload[r].content))
      /\ rpc[r] = "saved" =>
           /\ HasKey(files, PathOf(upload[r].filename))
           /\ Lookup(files, PathOf(upload[r].filename)) = upload[r].content

====
